---------------------------- MODULE Spec2Model ----------------------------
(***************************************************************************)
(* Model of notebooks/00s_solution_SSP_exercise.ipynb: the GMST pipeline   *)
(* of the notebook.                                                        *)
(*                                                                         *)
(*   cell 13  per-run loop: rename spatial dimensions, decode time,        *)
(*            restrict to the time slice, drop coordinates, compute the    *)
(*            cosine-weighted global mean, fill gmst_dict and ds_dict      *)
(*   cell 21  splice every 'ssp' series behind a matching 'historical' one *)
(*   cell 22  remove the monthly climatology, rebase to 1850-1900, average *)
(*            by year                                                      *)
(*                                                                         *)
(* One iteration of a cell's for-loop is one action.  An exception that    *)
(* escapes a cell ends the run (pc = "failed").  The plotting cells and    *)
(* the gridded twin of the splicer (cell 15) are not modelled.             *)
(*                                                                         *)
(* Numbers are exact fractions [n, d] in lowest terms, NaN is 0/0.  The    *)
(* rounding of the float64 arithmetic of numpy is not modelled.            *)
(* Strings are sequences of one-character strings.  A dict is a sequence   *)
(* of [k, v] records in insertion order, as Python 3.7 dicts are.          *)
(***************************************************************************)
EXTENDS Integers, Sequences, FiniteSets, TLC

VARIABLES
    dset_dict,      \* cell 13: name -> raw dataset (the input)
    ds_dict,        \* cell 13: name -> normalised dataset
    gmst_dict,      \* cell 13: name -> global-mean series
    gmst_ssp_dict,  \* cell 21: name -> spliced series; cell 22: -> annual
    gmst_anomalies, \* cell 22: the rebased monthly anomaly of the last run
    pc,             \* "load", "splice", "post", "done", "failed"
    pos,            \* position of the running for-loop in its dict
    error           \* the exception that ended the run, or "none"

vars == <<dset_dict, ds_dict, gmst_dict, gmst_ssp_dict, gmst_anomalies,
          pc, pos, error>>

---------------------------------------------------------------------------
(* Bounds of the model.                                                    *)

MaxRuns == 3
MaxLon == 2
MaxVal == 1
MaxSeg == 2

---------------------------------------------------------------------------
(* Python strings.                                                         *)

\* sub in s
Contains(sub, s) ==
    \E k \in 0..(Len(s) - Len(sub)) : SubSeq(s, k + 1, k + Len(sub)) = sub

RECURSIVE Split(_, _)
\* s.split(sep) for a one-character sep
Split(s, sep) ==
    IF \A k \in 1..Len(s) : s[k] # sep
    THEN <<s>>
    ELSE LET p == CHOOSE k \in 1..Len(s) :
                      s[k] = sep /\ \A q \in 1..(k - 1) : s[q] # sep
         IN  <<SubSeq(s, 1, p - 1)>> \o Split(SubSeq(s, p + 1, Len(s)), sep)

RECURSIVE Join(_, _)
Join(fields, sep) ==
    IF Len(fields) = 1 THEN fields[1]
    ELSE fields[1] \o <<sep>> \o Join(Tail(fields), sep)

ssp == <<"s", "s", "p">>
historical == <<"h", "i", "s", "t", "o", "r", "i", "c", "a", "l">>

---------------------------------------------------------------------------
(* Python dicts, in insertion order.                                       *)

Keys(d) == {d[p].k : p \in 1..Len(d)}

Get(d, key) == d[CHOOSE p \in 1..Len(d) : d[p].k = key].v

\* d[key] = val
Put(d, key, val) ==
    IF key \in Keys(d)
    THEN [p \in 1..Len(d) |-> IF d[p].k = key THEN [k |-> key, v |-> val]
                                              ELSE d[p]]
    ELSE Append(d, [k |-> key, v |-> val])

---------------------------------------------------------------------------
(* Numbers: fractions in lowest terms; NaN is 0/0.                         *)

Abs(x) == IF x < 0 THEN -x ELSE x

RECURSIVE GCD(_, _)
GCD(a, b) == IF b = 0 THEN a ELSE GCD(b, a % b)

NaN == [n |-> 0, d |-> 0]

IsNaN(x) == x.d = 0

Rat(n, d) ==
    IF d = 0 THEN NaN
    ELSE LET g == GCD(Abs(n), Abs(d))
             s == IF d < 0 THEN -1 ELSE 1
         IN  [n |-> s * (n \div g), d |-> s * (d \div g)]

Num(v) == [n |-> v, d |-> 1]

RAdd(a, b) ==
    IF IsNaN(a) \/ IsNaN(b) THEN NaN ELSE Rat(a.n * b.d + b.n * a.d, a.d * b.d)

RSub(a, b) ==
    IF IsNaN(a) \/ IsNaN(b) THEN NaN ELSE Rat(a.n * b.d - b.n * a.d, a.d * b.d)

RMul(a, b) ==
    IF IsNaN(a) \/ IsNaN(b) THEN NaN ELSE Rat(a.n * b.n, a.d * b.d)

\* a / b; the model never divides a non-zero number by zero
RDiv(a, b) ==
    IF IsNaN(a) \/ IsNaN(b) THEN NaN ELSE Rat(a.n * b.d, a.d * b.n)

RECURSIVE NanSum(_)
\* xarray's sum, skipna by default: a missing value counts as 0, and the sum
\* of nothing but missing values is 0
NanSum(xs) ==
    IF xs = <<>> THEN Num(0)
    ELSE IF IsNaN(Head(xs)) THEN NanSum(Tail(xs))
    ELSE RAdd(Head(xs), NanSum(Tail(xs)))

Valid(xs) == {k \in 1..Len(xs) : ~IsNaN(xs[k])}

\* xarray's mean, skipna by default: the mean of the values present, NaN when
\* there is none
NanMean(xs) ==
    IF Valid(xs) = {} THEN NaN
    ELSE RDiv(NanSum(xs), Num(Cardinality(Valid(xs))))

RECURSIVE Flatten(_)
Flatten(rows) ==
    IF rows = <<>> THEN <<>> ELSE Head(rows) \o Flatten(Tail(rows))

\* the subsequence of xs at the positions that satisfy keep, in order
RECURSIVE Pick(_, _, _)
Pick(xs, keep, from) ==
    IF from > Len(xs) THEN <<>>
    ELSE (IF from \in keep THEN <<xs[from]>> ELSE <<>>)
         \o Pick(xs, keep, from + 1)

---------------------------------------------------------------------------
(* Time stamps: months counted from year 0, so that stamps are ordered.    *)

MonthsPerYear == 12

Stamp(y, m) == y * MonthsPerYear + (m - 1)

Year(t) == t \div MonthsPerYear

Month(t) == (t % MonthsPerYear) + 1

\* time_slice = slice('1850','2100')
SliceFirstYear == 1850
SliceLastYear == 2100

\* slice('1850','1900'), the reference period of cell 22
RefFirstYear == 1850
RefLastYear == 1900

---------------------------------------------------------------------------
(* Cell 13: the Loader/Normalizer.  A dataset is a record                  *)
(*   dims, coords, data_vars  the names of its dimensions, coordinates     *)
(*                            and data variables                           *)
(*   units, decoded, time     the time axis: offsets in months since       *)
(*                            `units` until decode_cf makes them stamps    *)
(*   lat, nlon                the latitudes in degrees, the longitude count*)
(*   tas                      tas[t][a][b], the field                      *)

\* if ('longitude' in ds.dims) and ('latitude' in ds.dims): ds.rename(...)
NewName(n) ==
    IF n = "longitude" THEN "lon" ELSE IF n = "latitude" THEN "lat" ELSE n

Rename(ds) ==
    IF "longitude" \in ds.dims /\ "latitude" \in ds.dims
    THEN [ds EXCEPT !.dims = {NewName(n) : n \in @},
                    !.coords = {NewName(n) : n \in @}]
    ELSE ds

\* xr.decode_cf: the numeric time offsets become calendar stamps
DecodeCf(ds) ==
    [ds EXCEPT !.time = [p \in 1..Len(@) |-> ds.units + @[p]],
               !.decoded = TRUE]

InYears(t, first, last) == first <= Year(t) /\ Year(t) <= last

\* ds.sel(time=time_slice): the steps of the years 1850..2100, both included
SelTime(ds) ==
    LET keep == {p \in 1..Len(ds.time) :
                     InYears(ds.time[p], SliceFirstYear, SliceLastYear)}
    IN  [ds EXCEPT !.time = Pick(@, keep, 1), !.tas = Pick(@, keep, 1)]

\* a loop that drops "height" alone
DropCoordsHeightOnly(ds) == [ds EXCEPT !.coords = @ \ {"height"}]

KeptCoords == {"lat", "lon", "time"}

\* for coord in ds.coords: if coord not in [...]: ds = ds.drop(coord)
DropCoords(ds) == [ds EXCEPT !.coords = @ \cap KeptCoords]

Normalize(ds) == DropCoords(SelTime(DecodeCf(Rename(ds))))

\* ds.rename raises ValueError when a new name is already taken
RenameConflict(ds) ==
    /\ "longitude" \in ds.dims /\ "latitude" \in ds.dims
    /\ {"lat", "lon"} \cap (ds.dims \cup ds.coords \cup ds.data_vars) # {}

\* ds[name] raises KeyError unless name is a variable of the dataset
HasVar(ds, n) == n \in ds.coords \cup ds.data_vars

\* The exception one iteration of cell 13 raises on the raw dataset, "none"
\* when it raises none: the rename; then the lookups ds['lat'], ds['lon'] and
\* ds['tas'] of lines 187-189; then the sums over the dimensions lat and lon.
LoadError(raw) ==
    IF RenameConflict(raw) THEN "ValueError"
    ELSE IF \E n \in {"lat", "lon", "tas"} : ~HasVar(Normalize(raw), n)
         THEN "KeyError"
    ELSE IF ~({"lat", "lon"} \subseteq Normalize(raw).dims) THEN "ValueError"
    ELSE "none"

---------------------------------------------------------------------------
(* Cell 13: the Spatial Aggregator.                                        *)

\* np.cos(np.deg2rad(lat)) at the latitudes of the model's grids, where the
\* cosine is rational: cos 0 = 1, cos 60 = cos -60 = 1/2
Cos(lat) ==
    CASE lat = 0 -> Num(1)
      [] lat \in {-60, 60} -> Rat(1, 2)

\* np.cos(np.deg2rad(ds['lat'])) * xr.ones_like(ds['lon'])
CosLat2d(ds) ==
    [a \in 1..Len(ds.lat) |-> [b \in 1..ds.nlon |-> RMul(Cos(ds.lat[a]), Num(1))]]

\* ds['tas'] * cos_lat_2d at one time step
Weighted(field, w) ==
    [a \in 1..Len(field) |-> [b \in 1..Len(field[a]) |-> RMul(field[a][b], w[a][b])]]

\* a mean that divides by the number of cells
WeightedMeanByCount(field, w) ==
    RDiv(NanSum(Flatten(Weighted(field, w))), Num(Len(Flatten(w))))

\* (ds['tas'] * cos_lat_2d).sum(dim=['lat','lon']) / cos_lat_2d.sum(dim=['lat','lon'])
WeightedMean(field, w) ==
    RDiv(NanSum(Flatten(Weighted(field, w))), NanSum(Flatten(w)))

\* A series is a record: dim, the name of its axis; coord and values along
\* the axis; scalar, whether squeeze() removed an axis of length 1.
Gmst(ds) ==
    [dim |-> "time", scalar |-> FALSE, coord |-> ds.time,
     values |-> [t \in 1..Len(ds.time) |-> WeightedMean(ds.tas[t], CosLat2d(ds))]]

\* gmst.squeeze(): an axis of length 1 is removed, its coordinate stays
Squeeze(s) == [s EXCEPT !.scalar = (Len(s.coord) = 1)]

---------------------------------------------------------------------------
(* Cell 21: the Scenario Splicer.                                          *)

\* name.split(".")[2]
ModelName(name) == Split(name, ".")[3]

\* a match on the model name alone
MatchesAnyExperiment(name, hist_name) == Contains(ModelName(name), hist_name)

\* (model_name in hist_name) and ('historical' in hist_name)
Matches(name, hist_name) ==
    Contains(ModelName(name), hist_name) /\ Contains(historical, hist_name)

RECURSIVE FindHistFirst(_, _, _, _)
\* an inner loop that keeps the first match
FindHistFirst(name, d, p, found) ==
    IF p > Len(d) THEN found
    ELSE FindHistFirst(name, d, p + 1,
                       IF found = <<>> /\ Matches(name, d[p].k) THEN <<d[p].v>>
                       ELSE found)

RECURSIVE FindHist(_, _, _, _)
\* the inner for-loop from position p on; found is add_hist_gmst, <<>> for
\* None: every match overwrites the one before
FindHist(name, d, p, found) ==
    IF p > Len(d) THEN found
    ELSE FindHist(name, d, p + 1,
                  IF Matches(name, d[p].k) THEN <<d[p].v>> ELSE found)

\* a concatenation with the future series in front
ConcatFutureFirst(a, b) ==
    [dim |-> "time", scalar |-> FALSE,
     coord |-> b.coord \o a.coord, values |-> b.values \o a.values]

\* xr.concat([a, b], dim='time'): b behind a, a squeezed axis restored
Concat(a, b) ==
    [dim |-> "time", scalar |-> FALSE,
     coord |-> a.coord \o b.coord, values |-> a.values \o b.values]

---------------------------------------------------------------------------
(* Cell 22: climatology removal, rebasing, annual means.                   *)

RECURSIVE SortedSeq(_)
\* the members of a set of integers in increasing order
SortedSeq(S) ==
    IF S = {} THEN <<>>
    ELSE LET m == CHOOSE x \in S : \A y \in S : x <= y
         IN  <<m>> \o SortedSeq(S \ {m})

\* gmst.groupby('time.month').mean('time')
Climatology(s) ==
    [m \in {Month(s.coord[p]) : p \in 1..Len(s.coord)} |->
        NanMean(Pick(s.values, {p \in 1..Len(s.coord) : Month(s.coord[p]) = m}, 1))]

\* gmst.groupby('time.month') - gmst_climatology
SeasonalAnomaly(s) ==
    [s EXCEPT !.values =
        [p \in 1..Len(@) |-> RSub(@[p], Climatology(s)[Month(s.coord[p])])]]

\* the steps of the reference period
RefSteps(s) ==
    {p \in 1..Len(s.coord) : InYears(s.coord[p], RefFirstYear, RefLastYear)}

\* a baseline taken over the whole series
RefMeanWholeSeries(a) == NanMean(a.values)

\* gmst_anomalies.sel(time=slice('1850','1900')).mean(dim='time')
RefMean(a) == NanMean(Pick(a.values, RefSteps(a), 1))

\* gmst_anomalies - gmst_anomalies.sel(...).mean(dim='time')
Rebase(a) ==
    [a EXCEPT !.values = [p \in 1..Len(@) |-> RSub(@[p], RefMean(a))]]

\* gmst_anomalies.groupby('time.year').mean('time')
Annual(a) ==
    LET years == SortedSeq({Year(a.coord[p]) : p \in 1..Len(a.coord)})
    IN  [dim |-> "year", scalar |-> FALSE, coord |-> years,
         values |-> [q \in 1..Len(years) |->
             NanMean(Pick(a.values,
                          {p \in 1..Len(a.coord) : Year(a.coord[p]) = years[q]}, 1))]]

---------------------------------------------------------------------------
(* The inputs: what cat.to_dataset_dict returns.  The keys have the fields *)
(* activity.institution.model.experiment.table.grid of intake-esm.         *)

CMIP == <<"C", "M", "I", "P">>
ScenarioMIP == <<"S", "c", "e", "n", "a", "r", "i", "o", "M", "I", "P">>
NCAR == <<"N", "C", "A", "R">>
MIROC == <<"M", "I", "R", "O", "C">>
CESM2 == <<"C", "E", "S", "M", "2">>
CESM2WACCM == CESM2 \o <<"-", "W", "A", "C", "C", "M">>
MIROC6 == MIROC \o <<"6">>
ssp585 == ssp \o <<"5", "8", "5">>
Amon == <<"A", "m", "o", "n">>
gn == <<"g", "n">>

Key(activity, institution, model, experiment) ==
    Join(<<activity, institution, model, experiment, Amon, gn>>, ".")

HistCESM2 == Key(CMIP, NCAR, CESM2, historical)
HistWACCM == Key(CMIP, NCAR, CESM2WACCM, historical)
HistMIROC6 == Key(CMIP, MIROC, MIROC6, historical)
SspCESM2 == Key(ScenarioMIP, NCAR, CESM2, ssp585)
SspWACCM == Key(ScenarioMIP, NCAR, CESM2WACCM, ssp585)
SspMIROC6 == Key(ScenarioMIP, MIROC, MIROC6, ssp585)

RunPool == <<HistCESM2, HistWACCM, HistMIROC6, SspCESM2, SspWACCM, SspMIROC6>>

Vals == {Num(v) : v \in 0..MaxVal}
Cells == Vals \cup {NaN}
Lats == {-60, 0, 60}
SpatialNames == {{"lat", "lon"}, {"latitude", "longitude"},
                 {"x", "y"}, {"lat", "longitude"}}
ExtraCoords == {"height", "member_id"}

Schema(spatial, extras, variables) ==
    [dims |-> {"time"} \cup spatial,
     coords |-> {"time"} \cup spatial \cup extras,
     data_vars |-> variables]

\* lat and lon as coordinates that are no dimensions (a curvilinear grid)
AuxCoords == {"lat", "lon"}

Schemas ==
    {Schema(sp, ex \cup aux, dv) :
        sp \in SpatialNames, ex \in SUBSET ExtraCoords,
        aux \in {{}, AuxCoords}, dv \in {{"tas"}, {}}}

PlainSchema == Schema({"lat", "lon"}, {"height"}, {"tas"})

\* a raw dataset: the time axis is still numeric (decode_times=False)
Dataset(schema, units, stamps, lat, nlon, tas) ==
    [dims |-> schema.dims, coords |-> schema.coords,
     data_vars |-> schema.data_vars,
     units |-> units, decoded |-> FALSE,
     time |-> [p \in 1..Len(stamps) |-> stamps[p] - units],
     lat |-> lat, nlon |-> nlon,
     tas |-> IF "tas" \in schema.data_vars THEN tas ELSE <<>>]

Uniform(c, nlat, nlon) == [a \in 1..nlat |-> [b \in 1..nlon |-> c]]

\* a series on the 1 x 1 grid at the equator: its global mean is its value
Point(schema, stamps, values) ==
    Dataset(schema, IF stamps = <<>> THEN 0 ELSE stamps[1], stamps, <<0>>, 1,
            [p \in 1..Len(stamps) |-> Uniform(values[p], 1, 1)])

HistStamps == <<Stamp(1850, 1), Stamp(2014, 12)>>
SspStamps == <<Stamp(2015, 1), Stamp(2100, 12)>>

\* the dataset of run q of RunPool: every step holds q
PoolRun(q) ==
    [k |-> RunPool[q],
     v |-> Point(PlainSchema,
                 IF Contains(historical, RunPool[q]) THEN HistStamps ELSE SspStamps,
                 <<Num(q), Num(q)>>)]

\* the orders in which up to MaxRuns distinct runs of the pool are loaded
Orders ==
    {f \in UNION {[1..m -> 1..Len(RunPool)] : m \in 1..MaxRuns} :
        \A a, b \in DOMAIN f : a # b => f[a] # f[b]}

\* 1. the runs and their order vary
NameInput(d) == \E order \in Orders : d = [p \in 1..Len(order) |-> PoolRun(order[p])]

SchemaPair(s1, s2) ==
    <<[k |-> HistCESM2, v |-> Point(s1, HistStamps, <<Num(1), Num(1)>>)],
      [k |-> SspCESM2, v |-> Point(s2, SspStamps, <<Num(2), Num(2)>>)]>>

\* 2. the schema of the historical or of the future run varies
SchemaInput(d) ==
    \E s \in Schemas :
        d = SchemaPair(s, PlainSchema) \/ d = SchemaPair(PlainSchema, s)

LatSeqs == {SortedSeq(S) : S \in (SUBSET Lats) \ {{}}}

\* the fields of one time step: one value everywhere, or so but for one cell
Fields(nlat, nlon) ==
    {[a \in 1..nlat |-> [b \in 1..nlon |->
          IF a = oa /\ b = ob THEN odd ELSE base]] :
        base \in Cells, odd \in Cells, oa \in 1..nlat, ob \in 1..nlon}

GridRun(lat, nlon, f1, f2) ==
    [k |-> SspCESM2,
     v |-> Dataset(PlainSchema, Stamp(2015, 1), SspStamps, lat, nlon, <<f1, f2>>)]

\* 3. the grid and the field of the future run vary
GridInput(d) ==
    \E lat \in LatSeqs : \E nlon \in 1..MaxLon :
        \E f1 \in Fields(Len(lat), nlon) : \E c \in Cells :
            d = <<PoolRun(1), GridRun(lat, nlon, f1, Uniform(c, Len(lat), nlon))>>

Range(from, len) == [p \in 1..len |-> from + p - 1]

Firsts == {Stamp(1849, 12), Stamp(1900, 11), Stamp(2100, 10)}

SeriesPair(hs, hv, fs, fv) ==
    <<[k |-> HistCESM2, v |-> Point(PlainSchema, hs, hv)],
      [k |-> SspCESM2, v |-> Point(PlainSchema, fs, fv)]>>

\* 4. a historical series on consecutive months and a future series on the
\*    months that follow
ContigInput(d) ==
    \E first \in Firsts : \E hl \in 1..MaxSeg : \E fl \in 1..MaxSeg :
        \E hv \in [1..hl -> Vals] : \E fv \in [1..fl -> Vals] :
            d = SeriesPair(Range(first, hl), hv, Range(first + hl, fl), fv)

SparseHist ==
    {Stamp(1850, 1), Stamp(1850, 2), Stamp(1900, 1), Stamp(1901, 1)}
SparseSsp == {Stamp(2015, 1), Stamp(2015, 2)}

\* 5. series with gaps: months of several years, inside and outside the
\*    reference period
SparseInput(d) ==
    \E hs \in (SUBSET SparseHist) \ {{}} : \E fs \in (SUBSET SparseSsp) \ {{}} :
        \E hv \in [1..Cardinality(hs) -> Vals] :
            \E fv \in [1..Cardinality(fs) -> Vals] :
                d = SeriesPair(SortedSeq(hs), hv, SortedSeq(fs), fv)

---------------------------------------------------------------------------
(* The notebook.                                                           *)

Init ==
    /\ \/ NameInput(dset_dict)
       \/ SchemaInput(dset_dict)
       \/ GridInput(dset_dict)
       \/ ContigInput(dset_dict)
       \/ SparseInput(dset_dict)
    /\ ds_dict = <<>>
    /\ gmst_dict = <<>>
    /\ gmst_ssp_dict = <<>>
    /\ gmst_anomalies = <<>>
    /\ pc = "load"
    /\ pos = 1
    /\ error = "none"

\* cell 13, one iteration that ends with the two assignments
LoadRun ==
    /\ pc = "load"
    /\ LET name == dset_dict[pos].k
           ds == Normalize(dset_dict[pos].v)
       IN  /\ LoadError(dset_dict[pos].v) = "none"
           /\ gmst_dict' = Put(gmst_dict, name, Squeeze(Gmst(ds)))
           /\ ds_dict' = Put(ds_dict, name, ds)
           /\ pc' = IF pos < Len(dset_dict) THEN "load" ELSE "splice"
           /\ pos' = IF pos < Len(dset_dict) THEN pos + 1 ELSE 1
    /\ UNCHANGED <<dset_dict, gmst_ssp_dict, gmst_anomalies, error>>

\* an iteration that stores the dataset before it computes the mean
LoadFailAfterStore ==
    /\ pc = "load"
    /\ LoadError(dset_dict[pos].v) # "none"
    /\ error' = LoadError(dset_dict[pos].v)
    /\ ds_dict' = Put(ds_dict, dset_dict[pos].k, Normalize(dset_dict[pos].v))
    /\ pc' = "failed"
    /\ UNCHANGED <<dset_dict, gmst_dict, gmst_ssp_dict, gmst_anomalies, pos>>

\* cell 13, an iteration that raises: the exception ends the loop
LoadFail ==
    /\ pc = "load"
    /\ LoadError(dset_dict[pos].v) # "none"
    /\ error' = LoadError(dset_dict[pos].v)
    /\ pc' = "failed"
    /\ UNCHANGED <<dset_dict, ds_dict, gmst_dict, gmst_ssp_dict,
                   gmst_anomalies, pos>>

\* the end of an iteration of cell 21: the next item, or cell 22, or the end
SpliceNext ==
    /\ pos' = IF pos < Len(gmst_dict) THEN pos + 1 ELSE 1
    /\ pc' = IF pos < Len(gmst_dict) THEN "splice"
             ELSE IF Len(gmst_ssp_dict') = 0 THEN "done" ELSE "post"

\* cell 21, `if 'ssp' not in name: continue`
SpliceSkip ==
    /\ pc = "splice"
    /\ ~Contains(ssp, gmst_dict[pos].k)
    /\ gmst_ssp_dict' = gmst_ssp_dict
    /\ SpliceNext
    /\ UNCHANGED <<dset_dict, ds_dict, gmst_dict, gmst_anomalies, error>>

\* cell 21, one iteration for a future run
SpliceRun ==
    /\ pc = "splice"
    /\ Contains(ssp, gmst_dict[pos].k)
    /\ LET name == gmst_dict[pos].k
           gmst == gmst_dict[pos].v
           add_hist_gmst == FindHist(name, gmst_dict, 1, <<>>)
       IN  gmst_ssp_dict' =
               IF add_hist_gmst # <<>>
               THEN Put(gmst_ssp_dict, name, Concat(add_hist_gmst[1], gmst))
               ELSE gmst_ssp_dict
    /\ SpliceNext
    /\ UNCHANGED <<dset_dict, ds_dict, gmst_dict, gmst_anomalies, error>>

\* cell 22, one iteration; the time axis of every spliced series of the
\* model is increasing, as the slice of line 335 needs
PostRun ==
    /\ pc = "post"
    /\ LET name == gmst_ssp_dict[pos].k
           gmst == gmst_ssp_dict[pos].v
           anomalies == Rebase(SeasonalAnomaly(gmst))
       IN  /\ gmst_anomalies' = <<anomalies>>
           /\ gmst_ssp_dict' = Put(gmst_ssp_dict, name, Annual(anomalies))
    /\ pc' = IF pos < Len(gmst_ssp_dict) THEN "post" ELSE "done"
    /\ pos' = IF pos < Len(gmst_ssp_dict) THEN pos + 1 ELSE 1
    /\ UNCHANGED <<dset_dict, ds_dict, gmst_dict, error>>

Next == LoadRun \/ LoadFail \/ SpliceSkip \/ SpliceRun \/ PostRun

Spec == Init /\ [][Next]_vars

---------------------------------------------------------------------------
(* The loops of cells 13 and 21 as functions of the dict they iterate      *)
(* over, for the comparison of two orders of the same runs.                *)

RECURSIVE LoadLoop(_, _, _)
\* gmst_dict after the loop of cell 13 over d from position p on, out being
\* gmst_dict so far; an exception ends the loop
LoadLoop(d, p, out) ==
    IF p > Len(d) \/ LoadError(d[p].v) # "none" THEN out
    ELSE LoadLoop(d, p + 1, Put(out, d[p].k, Squeeze(Gmst(Normalize(d[p].v)))))

RECURSIVE SpliceLoop(_, _, _)
\* gmst_ssp_dict after the loop of cell 21 over gd from position p on, out
\* being gmst_ssp_dict so far
SpliceLoop(gd, p, out) ==
    IF p > Len(gd) THEN out
    ELSE IF ~Contains(ssp, gd[p].k) THEN SpliceLoop(gd, p + 1, out)
    ELSE LET add_hist_gmst == FindHist(gd[p].k, gd, 1, <<>>)
         IN  SpliceLoop(gd, p + 1,
                        IF add_hist_gmst # <<>>
                        THEN Put(out, gd[p].k, Concat(add_hist_gmst[1], gd[p].v))
                        ELSE out)

---------------------------------------------------------------------------
(* Properties.                                                             *)

UsesLatLon(raw) == {"lat", "lon"} \subseteq raw.dims
UsesLatitudeLongitude(raw) == {"latitude", "longitude"} \subseteq raw.dims

\* C1: every stored dataset whose raw dataset names its spatial dimensions
\* lat/lon or latitude/longitude has the coordinates lat, lon and time and no
\* other, and no dimension or coordinate is still named latitude or longitude.
C1_CanonicalCoords ==
    \A p \in 1..Len(ds_dict) :
        LET raw == Get(dset_dict, ds_dict[p].k)
            ds == ds_dict[p].v
        IN  (UsesLatLon(raw) \/ UsesLatitudeLongitude(raw)) =>
                /\ ds.coords = {"lat", "lon", "time"}
                /\ (ds.dims \cup ds.coords) \cap {"latitude", "longitude"} = {}

\* a dataset named latitude/longitude, with two more coordinates, is stored
C1_Witness ==
    \E p \in 1..Len(ds_dict) :
        LET raw == Get(dset_dict, ds_dict[p].k)
        IN  /\ UsesLatitudeLongitude(raw)
            /\ {"height", "member_id"} \subseteq raw.coords

Unsupported(raw) ==
    \/ ~UsesLatLon(raw) /\ ~UsesLatitudeLongitude(raw)
    \/ "tas" \notin raw.data_vars

\* the loop of cell 13 has come to item p
Reached(p) ==
    \/ pc = "load" /\ pos > p
    \/ pc = "failed" /\ pos >= p
    \/ pc \in {"splice", "post", "done"}

\* C2 as claimed: a run whose raw dataset has neither naming of the spatial
\* dimensions, or no tas, ends the Loader with the outcome UnsupportedSchema
\* and gets no entry in ds_dict or gmst_dict.
C2_UnsupportedSchema ==
    \A p \in 1..Len(dset_dict) :
        (Unsupported(dset_dict[p].v) /\ Reached(p)) =>
            /\ error = "UnsupportedSchema"
            /\ dset_dict[p].k \notin Keys(ds_dict) \cup Keys(gmst_dict)

\* C2 amended: such a run ends the loop of cell 13, at that run, with a
\* KeyError or a ValueError (a KeyError when the dataset has no coordinate
\* lat or lon beside those of its dimensions), and gets no entry in ds_dict
\* or gmst_dict.
C2_KeyError ==
    \A p \in 1..Len(dset_dict) :
        (Unsupported(dset_dict[p].v) /\ Reached(p)) =>
            /\ pc = "failed" /\ pos = p
            /\ error \in {"KeyError", "ValueError"}
            /\ ({"lat", "lon"} \cap dset_dict[p].v.coords \subseteq dset_dict[p].v.dims)
                   => error = "KeyError"
            /\ dset_dict[p].k \notin Keys(ds_dict) \cup Keys(gmst_dict)

\* the second run has lat/lon and no tas, and fails after the first was stored
C2_Witness ==
    /\ pc = "failed" /\ pos = 2 /\ Len(gmst_dict) = 1
    /\ UsesLatLon(dset_dict[2].v)
    /\ "tas" \notin dset_dict[2].v.data_vars

\* C3: at every time step at which the field of a loaded run holds one value
\* v at every cell, none missing, the global mean of that step is v.
C3_ConstantField ==
    \A p \in 1..Len(gmst_dict) :
        LET ds == Get(ds_dict, gmst_dict[p].k)
            gmst == gmst_dict[p].v
        IN  \A t \in 1..Len(ds.tas) : \A v \in Vals :
                (\A a \in 1..Len(ds.lat) : \A b \in 1..ds.nlon : ds.tas[t][a][b] = v)
                    => gmst.values[t] = v

\* a field that is 1 everywhere on a grid with latitudes of different weight
\* and more than one longitude
C3_Witness ==
    \E p \in 1..Len(gmst_dict) :
        LET ds == Get(ds_dict, gmst_dict[p].k)
        IN  /\ Len(ds.lat) >= 2 /\ ds.nlon >= 2
            /\ \E a \in 1..Len(ds.lat) : ds.lat[a] = 0
            /\ \E a \in 1..Len(ds.lat) : ds.lat[a] = 60
            /\ \E t \in 1..Len(ds.tas) :
                   /\ \A a \in 1..Len(ds.lat) : \A b \in 1..ds.nlon :
                          ds.tas[t][a][b] = Num(1)
                   /\ gmst_dict[p].v.values[t] = Num(1)

\* C4 as claimed: at a time step at which every cell of a loaded run is
\* missing, the global mean in gmst_dict is undefined, and so is that step of
\* the spliced series.
C4_MissingStepUndefined ==
    \A p \in 1..Len(gmst_dict) :
        LET name == gmst_dict[p].k
            ds == Get(ds_dict, name)
            gmst == gmst_dict[p].v
        IN  \A t \in 1..Len(ds.tas) :
                (\A a \in 1..Len(ds.lat) : \A b \in 1..ds.nlon : IsNaN(ds.tas[t][a][b]))
                    => /\ IsNaN(gmst.values[t])
                       /\ (name \in Keys(gmst_ssp_dict) /\
                           Get(gmst_ssp_dict, name).dim = "time") =>
                              \A q \in 1..Len(Get(gmst_ssp_dict, name).coord) :
                                  Get(gmst_ssp_dict, name).coord[q] = gmst.coord[t]
                                      => IsNaN(Get(gmst_ssp_dict, name).values[q])

\* the positions of gmst_dict whose key matches the future run `name`
MatchPositions(name) ==
    {p \in 1..Len(gmst_dict) :
        /\ Contains(ModelName(name), gmst_dict[p].k)
        /\ Contains(historical, gmst_dict[p].k)}

\* the match that comes last in the iteration order of gmst_dict
LastMatch(name) ==
    gmst_dict[CHOOSE p \in MatchPositions(name) :
                  \A q \in MatchPositions(name) : q <= p]

\* an entry of gmst_ssp_dict that cell 22 has not yet replaced
Spliced(name) ==
    /\ name \in Keys(gmst_ssp_dict)
    /\ Get(gmst_ssp_dict, name).dim = "time"

Consecutive(ts) == \A p \in 1..(Len(ts) - 1) : ts[p + 1] = ts[p] + 1

\* H has the steps t0..t1 and F the steps t1+1..t2
Adjoining(H, F) ==
    /\ Len(H.coord) >= 1 /\ Len(F.coord) >= 1
    /\ Consecutive(H.coord) /\ Consecutive(F.coord)
    /\ F.coord[1] = H.coord[Len(H.coord)] + 1

\* C5: the splice of a historical series on t0..t1 and a future series on
\* t1+1..t2 has the steps t0, t0+1, ..., t2 in this order, each once, and at
\* every step the value its source has there.
C5_SpliceCoversBoth ==
    \A name \in Keys(gmst_dict) :
        (Spliced(name) /\ Adjoining(LastMatch(name).v, Get(gmst_dict, name))) =>
            LET H == LastMatch(name).v
                F == Get(gmst_dict, name)
                S == Get(gmst_ssp_dict, name)
                t0 == H.coord[1]
                t2 == F.coord[Len(F.coord)]
            IN  /\ Len(S.coord) = t2 - t0 + 1
                /\ Len(S.values) = Len(S.coord)
                /\ \A q \in 1..Len(S.coord) : S.coord[q] = t0 + q - 1
                /\ \A q \in 1..Len(H.coord) : S.values[q] = H.values[q]
                /\ \A q \in 1..Len(F.coord) :
                       S.values[Len(H.coord) + q] = F.values[q]

\* two historical months are spliced with two future months of other values
C5_Witness ==
    /\ Spliced(SspCESM2)
    /\ Adjoining(LastMatch(SspCESM2).v, Get(gmst_dict, SspCESM2))
    /\ Len(LastMatch(SspCESM2).v.coord) = 2
    /\ Len(Get(gmst_dict, SspCESM2).coord) = 2
    /\ LastMatch(SspCESM2).v.values = <<Num(0), Num(1)>>
    /\ Get(gmst_dict, SspCESM2).values = <<Num(1), Num(0)>>

\* the loop of cell 21 is over
SplicerDone == pc \in {"post", "done"}

\* C6: after the loop of cell 21 the keys of gmst_ssp_dict are the keys of
\* gmst_dict that contain 'ssp' and whose model name is contained in a key
\* that contains 'historical'; the others get no entry and no error is
\* raised; and at no time has a key without 'ssp' an entry.
C6_SplicedKeys ==
    /\ \A name \in Keys(gmst_ssp_dict) : Contains(ssp, name)
    /\ SplicerDone =>
           /\ error = "none"
           /\ Keys(gmst_ssp_dict) =
                  {name \in Keys(gmst_dict) :
                      /\ Contains(ssp, name)
                      /\ \E h \in Keys(gmst_dict) :
                             /\ Contains(Split(name, ".")[3], h)
                             /\ Contains(historical, h)}

\* a future run with a historical companion and one without
C6_Witness ==
    /\ SplicerDone
    /\ SspCESM2 \in Keys(gmst_ssp_dict)
    /\ SspMIROC6 \in Keys(gmst_dict) \ Keys(gmst_ssp_dict)

ModelField(name) == Split(name, ".")[3]

\* C7 as claimed: every spliced series starts with the series of a
\* historical run whose model field equals the model field of the future run.
C7_SameModelHistorical ==
    \A name \in Keys(gmst_dict) :
        Spliced(name) =>
            \E h \in Keys(gmst_dict) :
                /\ ModelField(h) = ModelField(name)
                /\ Contains(historical, h)
                /\ Get(gmst_ssp_dict, name) =
                       Concat(Get(gmst_dict, h), Get(gmst_dict, name))

\* the loop of cell 21 has passed the run `name`
Passed(name) ==
    \/ SplicerDone
    \/ pc = "splice" /\ \E p \in 1..(pos - 1) : gmst_dict[p].k = name

\* C8 as claimed: a future run with two or more matching historical keys
\* ends the Splicer with AmbiguousMatch and gets no entry.
C8_AmbiguousMatchRaised ==
    \A name \in Keys(gmst_dict) :
        (Contains(ssp, name) /\ Passed(name) /\
         Cardinality(MatchPositions(name)) >= 2) =>
            /\ error = "AmbiguousMatch"
            /\ name \notin Keys(gmst_ssp_dict)

RECURSIVE SumAt(_, _)
SumAt(xs, S) ==
    IF S = {} THEN Num(0)
    ELSE LET p == CHOOSE q \in S : TRUE
         IN  RAdd(xs[p], SumAt(xs, S \ {p}))

\* the steps of the years 1850..1900 of a series
Window(s) == {p \in 1..Len(s.coord) : 1850 <= Year(s.coord[p]) /\ Year(s.coord[p]) <= 1900}

C10_LastMatchWins ==
    \A name \in Keys(gmst_dict) :
        (Contains(ssp, name) /\ Passed(name) /\
         Cardinality(MatchPositions(name)) >= 2) =>
            /\ name \in Keys(gmst_ssp_dict)
            /\ Spliced(name) =>
                   /\ Get(gmst_ssp_dict, name) =
                          Concat(LastMatch(name).v, Get(gmst_dict, name))
                   /\ \A p \in MatchPositions(name) :
                          gmst_dict[p] # LastMatch(name) =>
                              \A q \in 1..Len(Get(gmst_ssp_dict, name).values) :
                                  \A r \in 1..Len(gmst_dict[p].v.values) :
                                      Get(gmst_ssp_dict, name).values[q]
                                          # gmst_dict[p].v.values[r]

\* the historical run of the same model comes first and is overwritten by
\* the historical run of another model
C10_Witness ==
    /\ Spliced(SspCESM2)
    /\ Keys(gmst_dict) = {HistCESM2, HistWACCM, SspCESM2}
    /\ LastMatch(SspCESM2).k = HistWACCM


\* the mapping a dict holds, whatever its insertion order
Items(d) == {d[p] : p \in 1..Len(d)}

\* the orders in which the runs of d can be loaded
Reorderings(d) ==
    {[p \in 1..Len(d) |-> d[f[p]]] :
        f \in {g \in [1..Len(d) -> 1..Len(d)] :
                   \A a, b \in 1..Len(d) : a # b => g[a] # g[b]}}

\* the loop of cell 21 is over and cell 22 has replaced no entry yet
SplicerJustDone ==
    \/ pc = "post" /\ pos = 1
    \/ pc = "done" /\ gmst_ssp_dict = <<>>

\* what the loop of cell 13 does holds for the loop as a function, too
LoadLoopAgrees == SplicerDone => LoadLoop(dset_dict, 1, <<>>) = gmst_dict

\* what the loop of cell 21 does holds for the loop as a function, too
SpliceLoopAgrees ==
    SplicerJustDone => SpliceLoop(gmst_dict, 1, <<>>) = gmst_ssp_dict

\* Every order of the runs gives the mapping from run name to global-mean
\* series that gmst_dict holds (every run has loaded).
MergeOrderIndependent ==
    SplicerDone =>
        \A d \in Reorderings(dset_dict) :
            Items(LoadLoop(d, 1, <<>>)) = Items(gmst_dict)

\* C11 as claimed: in whatever order the results of the runs are inserted,
\* the mapping from run name to global-mean series is the same, and so is the
\* mapping from run name to spliced series that the Splicer computes from it.
C11_OrderIndependent ==
    SplicerJustDone =>
        \A d \in Reorderings(dset_dict) :
            /\ Items(LoadLoop(d, 1, <<>>)) = Items(gmst_dict)
            /\ Items(SpliceLoop(LoadLoop(d, 1, <<>>), 1, <<>>))
                   = Items(gmst_ssp_dict)

=============================================================================
